---- MODULE Spec2Model ----
(***************************************************************************)
(* Model of the FRED economic dashboard: logger_config.setup_logging and   *)
(* the Streamlit script app.py (initialize_fred, get_economic_data,        *)
(* create_chart, calculate_change, main).  One behaviour is a sequence of  *)
(* script executions; Streamlit re-executes app.py on every interaction.   *)
(***************************************************************************)
EXTENDS Integers, Sequences, FiniteSets

VARIABLES
    handlers,        \* logging.getLogger('fred_dashboard').handlers
    rootHandlers,    \* whether the root logger has a handler (environment)
    rerun,           \* app.py has been executed before in this process
    faulted,         \* an earlier execution recovered from a fault
    pc,              \* position of the current script execution
    fred_api_key,    \* app.py:17
    fred,            \* main's local `fred`
    sel,             \* the widget values of this execution
    data_dict,       \* main's local `data_dict`
    fig,             \* main's local `fig`
    ui,              \* elements shown on the page in this execution
    metrics,         \* values given to st.metric / st.caption in this execution
    runLog,          \* log records emitted in this execution
    fetched,         \* the requests sent to fred.get_series in this execution
    answer,          \* what the provider answered in this execution
    pct_change,      \* main's local `pct_change`
    curFault,        \* faults raised in this execution
    escaped,         \* exception that propagated out of main ("none" if none)
    outcome          \* how the last finished execution ended

vars == <<handlers, rootHandlers, rerun, faulted, pc, fred_api_key, fred, sel,
          data_dict, fig, ui, metrics, runLog, fetched, answer, pct_change, curFault,
          escaped, outcome>>

----------------------------------------------------------------------------
(* Bounds of the model *)

MaxLen == 3

----------------------------------------------------------------------------
(* float64 values: a finite value is the fraction n/d in lowest terms with *)
(* d > 0; NaN and the infinities are kinds of their own.  NoneVal is       *)
(* Python's None where a float is expected.                                *)

Abs(i) == IF i < 0 THEN 0 - i ELSE i

RECURSIVE GCD(_, _)
GCD(a, b) == IF b = 0 THEN a ELSE GCD(b, a % b)

Num(i) == [k |-> "num", n |-> i, d |-> 1]
NaN == [k |-> "nan", n |-> 0, d |-> 1]
PosInf == [k |-> "inf", n |-> 0, d |-> 1]
NegInf == [k |-> "ninf", n |-> 0, d |-> 1]
NoneVal == [k |-> "none", n |-> 0, d |-> 1]
Raised == [k |-> "raise", n |-> 0, d |-> 1]

Frac(n, d) ==
    LET s == IF d < 0 THEN 0 - 1 ELSE 1
        g == GCD(Abs(n), Abs(d))
    IN  [k |-> "num", n |-> (s * n) \div g, d |-> (s * d) \div g]

IsNum(x) == x.k = "num"

\* numpy float64 subtraction (newest - oldest), operands finite or NaN
FSub(a, b) ==
    IF IsNum(a) /\ IsNum(b) THEN Frac(a.n * b.d - b.n * a.d, a.d * b.d) ELSE NaN

\* variant: division by zero raises, as Python's own float does
FDivRaising(a, b) ==
    IF ~(IsNum(a) /\ IsNum(b)) THEN NaN
    ELSE IF b.n = 0 THEN Raised
    ELSE Frac(a.n * b.d, a.d * b.n)

\* numpy float64 true division: x/0 is +-inf, 0/0 is NaN (a RuntimeWarning
\* is emitted, no exception is raised)
FDiv(a, b) ==
    IF ~(IsNum(a) /\ IsNum(b)) THEN NaN
    ELSE IF b.n = 0
         THEN (IF a.n > 0 THEN PosInf ELSE IF a.n < 0 THEN NegInf ELSE NaN)
    ELSE Frac(a.n * b.d, a.d * b.n)

\* numpy float64 multiplication by the positive literal 100
FMul(a, c) == IF IsNum(a) THEN Frac(a.n * c, a.d) ELSE a

FLess(a, b) == a.n * b.d < b.n * a.d

----------------------------------------------------------------------------
(* logging: logger_config.setup_logging and the logger's handlers *)

LevelNo == [DEBUG |-> 10, INFO |-> 20, WARNING |-> 30, ERROR |-> 40]

ConsoleHandler == [kind |-> "console", level |-> LevelNo.INFO]
FileHandler == [kind |-> "file", level |-> LevelNo.DEBUG]

\* Logger.hasHandlers(): this logger or an ancestor it propagates to has one
HasHandlers(hs, root) == hs # <<>> \/ root

\* variant: the existing handlers are not cleared
SetupHandlersNoClear(hs, root) == hs \o <<ConsoleHandler, FileHandler>>

\* the handler list on return of setup_logging, given the list on entry
SetupHandlers(hs, root) ==
    LET cleared == IF HasHandlers(hs, root) THEN <<>> ELSE hs
    IN  cleared \o <<ConsoleHandler, FileHandler>>

\* how many handlers of one kind write a record of level lvl
Writes(hs, kind, lvl) ==
    Cardinality({i \in 1..Len(hs) : hs[i].kind = kind /\ hs[i].level <= lvl})

\* logger.info / warning / error: the record with the number of times each
\* sink receives it (the logger's own level is DEBUG, so nothing is dropped)
Emit(hs, lvl, msg) ==
    [lvl |-> lvl, msg |-> msg,
     console |-> Writes(hs, "console", LevelNo[lvl]),
     file |-> Writes(hs, "file", LevelNo[lvl])]

EmitAll(hs, recs) == [i \in 1..Len(recs) |-> Emit(hs, recs[i][1], recs[i][2])]

----------------------------------------------------------------------------
(* values of main's locals before they are assigned *)

NoData_dict == [present |-> FALSE, data |-> <<>>, title |-> "", units |-> ""]
NoFig == [present |-> FALSE, kind |-> "", title |-> "", ncat |-> 0, ylabel |-> "",
          markers |-> FALSE]
NoSel == [indicator |-> "", chart_type |-> "", quarters |-> 0]
Unset == [k |-> "unset", cents |-> 0]
NoQuarter == <<0, 0>>
NoMetrics == [latest |-> Unset, latest_quarter |-> NoQuarter, delta |-> Unset,
              min |-> Unset, min_quarter |-> NoQuarter,
              max |-> Unset, max_quarter |-> NoQuarter, mean |-> Unset]

NoAnswer == [k |-> "none", obs |-> <<>>]

El(kind, text, arg) == [kind |-> kind, text |-> text, arg |-> arg]

----------------------------------------------------------------------------
(* app.py:12-17, executed at the start of every script execution *)

\* logger = setup_logging()
SetupLogging ==
    /\ pc = "idle"
    /\ handlers' = SetupHandlers(handlers, rootHandlers)
    /\ runLog' = <<Emit(handlers', "INFO", "Logging initialized")>>
    /\ rerun' = (outcome # "none")
    /\ faulted' = (faulted \/ curFault # {})
    /\ pc' = "env"
    /\ fred_api_key' = "unset"
    /\ fred' = "None"
    /\ sel' = NoSel
    /\ data_dict' = NoData_dict
    /\ fig' = NoFig
    /\ ui' = <<>>
    /\ metrics' = NoMetrics
    /\ fetched' = <<>>
    /\ answer' = NoAnswer
    /\ pct_change' = NoneVal
    /\ curFault' = {}
    /\ escaped' = "none"
    /\ outcome' = "running"
    /\ UNCHANGED rootHandlers

\* load_dotenv(); fred_api_key = os.getenv("FRED_API_KEY"): None, "" or a key
EnvKeys == {"None", "", "abc123"}

LoadEnv ==
    /\ pc = "env"
    /\ \E key \in EnvKeys : fred_api_key' = key
    /\ pc' = "main"
    /\ UNCHANGED <<handlers, rootHandlers, rerun, faulted, fred, sel, data_dict, fig,
                   ui, metrics, runLog, fetched, answer, pct_change, curFault, escaped,
                   outcome>>

\* Python truthiness of the key: None and "" are falsy
KeyPresent(key) == key # "None" /\ key # ""

----------------------------------------------------------------------------
(* initialize_fred *)

\* variant: the key is not tested before the client is built
InitializeFredNoCheck(key, ctorRaises) ==
    IF ctorRaises
    THEN [fred |-> "None",
          log |-> << <<"INFO", "Initializing FRED API client">>,
                     <<"ERROR", "Error initializing FRED API client">> >>,
          ui |-> <<El("error", "Error initializing FRED API", "")>>,
          fault |-> {"initialize_fred"}]
    ELSE [fred |-> "Fred",
          log |-> << <<"INFO", "Initializing FRED API client">> >>,
          ui |-> <<>>,
          fault |-> {}]

\* the result of initialize_fred: the client (or None), the log records and
\* the page elements it produces; ctorRaises: Fred(api_key=...) raises
InitializeFred(key, ctorRaises) ==
    IF ~KeyPresent(key)
    THEN [fred |-> "None",
          log |-> << <<"INFO", "Initializing FRED API client">>,
                     <<"ERROR", "FRED API key not found in environment variables">> >>,
          ui |-> <<El("error", "FRED API key not found. Please check your .env file.", "")>>,
          fault |-> {}]
    ELSE IF ctorRaises
    THEN [fred |-> "None",
          log |-> << <<"INFO", "Initializing FRED API client">>,
                     <<"ERROR", "Error initializing FRED API client">> >>,
          ui |-> <<El("error", "Error initializing FRED API", "")>>,
          fault |-> {"initialize_fred"}]
    ELSE [fred |-> "Fred",
          log |-> << <<"INFO", "Initializing FRED API client">> >>,
          ui |-> <<>>,
          fault |-> {}]

\* main, lines 141-156: page header, initialize_fred, st.stop() without a client
MainStart ==
    /\ pc = "main"
    /\ \E ctorRaises \in BOOLEAN :
         LET r == InitializeFred(fred_api_key, ctorRaises)
         IN  /\ fred' = r.fred
             /\ runLog' = runLog \o EmitAll(handlers, r.log)
             /\ ui' = ui \o <<El("title", "U.S. Economic Data Dashboard", ""),
                              El("markdown", "intro", "")>> \o r.ui
             /\ curFault' = curFault \cup r.fault
             /\ pc' = IF r.fred = "None" THEN "idle" ELSE "widgets"
             /\ outcome' = IF r.fred = "None" THEN "stopped" ELSE outcome
    /\ UNCHANGED <<handlers, rootHandlers, rerun, faulted, fred_api_key, sel, data_dict,
                   fig, metrics, fetched, answer, pct_change, escaped>>

----------------------------------------------------------------------------
(* main, lines 158-219: the sidebar widgets *)

\* the indicator catalog, app.py:164-193
Indicators ==
    [name \in {"Gross Domestic Product (GDP)", "Real GDP", "GDP Growth Rate",
               "Personal Consumption Expenditures", "Unemployment Rate",
               "Consumer Price Index (CPI)", "Federal Funds Rate"} |->
       CASE name = "Gross Domestic Product (GDP)" ->
              [series_id |-> "GDP", units |-> "Billions of Dollars"]
         [] name = "Real GDP" ->
              [series_id |-> "GDPC1", units |-> "Billions of Chained 2017 Dollars"]
         [] name = "GDP Growth Rate" ->
              [series_id |-> "A191RL1Q225SBEA",
               units |-> "Percent Change from Preceding Period"]
         [] name = "Personal Consumption Expenditures" ->
              [series_id |-> "PCE", units |-> "Billions of Dollars"]
         [] name = "Unemployment Rate" ->
              [series_id |-> "UNRATE", units |-> "Percent"]
         [] name = "Consumer Price Index (CPI)" ->
              [series_id |-> "CPIAUCSL", units |-> "Index 1982-1984=100"]
         [] OTHER ->
              [series_id |-> "FEDFUNDS", units |-> "Percent"]]

ChartTypes == {"Line", "Bar", "Area"}

SliderMin == 4
SliderDefault == 8
SliderMax == 20

\* the selections explored: every chart type, two of the seven indicators,
\* the slider's ends and its default
Selections ==
    {[indicator |-> "Gross Domestic Product (GDP)", chart_type |-> "Line",
      quarters |-> SliderDefault],
     [indicator |-> "Unemployment Rate", chart_type |-> "Bar", quarters |-> SliderMin],
     [indicator |-> "Gross Domestic Product (GDP)", chart_type |-> "Area",
      quarters |-> SliderMax]}

SelectWidgets ==
    /\ pc = "widgets"
    /\ \E choice \in Selections :
         /\ choice.indicator \in DOMAIN Indicators
         /\ choice.chart_type \in ChartTypes
         /\ choice.quarters \in SliderMin..SliderMax
         /\ sel' = choice
    /\ ui' = ui \o <<El("sidebar", "Options", "")>>
    /\ pc' = "fetch"
    /\ UNCHANGED <<handlers, rootHandlers, rerun, faulted, fred_api_key, fred, data_dict,
                   fig, metrics, runLog, fetched, answer, pct_change, curFault, escaped,
                   outcome>>

----------------------------------------------------------------------------
(* the data provider: what fred.get_series can answer *)

\* observation values: absent (FRED's "." parsed to NaN), negative, zero, positive
ObsValues == {NaN, Num(0 - 1), Num(0), Num(3)}

\* dates are months counted from January of year 0; a series starts in
\* November and is monthly or quarterly, so that labels repeat and cross a
\* year
FirstDates == {11}
Steps == {1, 3}

\* FRED answers observations in ascending date order (sort_order=asc is its
\* default and get_series does not change it)
ProviderSeries ==
    UNION {
      { [i \in 1..n |-> [Date |-> first + (i - 1) * step, Value |-> vals[i]]] :
          first \in FirstDates, step \in Steps, vals \in [1..n -> ObsValues] }
      : n \in 0..MaxLen }

ProviderResponses ==
    {[k |-> "raise", obs |-> <<>>]} \cup {[k |-> "series", obs |-> o] : o \in ProviderSeries}

----------------------------------------------------------------------------
(* get_economic_data *)

\* df['Date'].dt.to_period('Q').astype(str): "<year>Q<1..4>" as <<year, quarter>>
ToQuarter(date) == <<(date - 1) \div 12, (((date - 1) % 12) \div 3) + 1>>

\* variant: the rows come out newest first
ShapeReversed(obs) ==
    [i \in 1..Len(obs) |->
       [Date |-> obs[Len(obs) + 1 - i].Date, Value |-> obs[Len(obs) + 1 - i].Value,
        Quarter |-> ToQuarter(obs[Len(obs) + 1 - i].Date)]]

\* lines 50-55: DataFrame(data), reset_index, columns, Quarter column
Shape(obs) ==
    [i \in 1..Len(obs) |->
       [Date |-> obs[i].Date, Value |-> obs[i].Value, Quarter |-> ToQuarter(obs[i].Date)]]

\* variant: a provider failure is logged but not shown
GetEconomicDataNoMessage(client, series_id, title, units, quarters, resp) ==
    LET request == [series_id |-> series_id, days |-> quarters * 91]
        sent == IF client = "None" THEN <<>> ELSE <<request>>
        start == <<"INFO", "Fetching data">>
    IN  IF client = "None" \/ resp.k = "raise"
        THEN [ret |-> NoData_dict,
              log |-> <<start, <<"ERROR", "Error fetching data">> >>,
              ui |-> <<>>,
              fault |-> {"get_economic_data"},
              sent |-> sent]
        ELSE IF resp.obs = <<>>
        THEN [ret |-> NoData_dict,
              log |-> <<start, <<"WARNING", "No data returned for series">> >>,
              ui |-> <<>>,
              fault |-> {},
              sent |-> sent]
        ELSE [ret |-> [present |-> TRUE, data |-> Shape(resp.obs),
                       title |-> title, units |-> units],
              log |-> <<start, <<"INFO", "Successfully retrieved data points">> >>,
              ui |-> <<>>,
              fault |-> {},
              sent |-> sent]

\* the result of get_economic_data with the log records, the page elements
\* and the requests sent to the provider
GetEconomicData(client, series_id, title, units, quarters, resp) ==
    LET request == [series_id |-> series_id, days |-> quarters * 91]
        sent == IF client = "None" THEN <<>> ELSE <<request>>
        start == <<"INFO", "Fetching data">>
    IN  IF client = "None" \/ resp.k = "raise"
        THEN [ret |-> NoData_dict,
              log |-> <<start, <<"ERROR", "Error fetching data">> >>,
              ui |-> <<El("error", "Error fetching data", title)>>,
              fault |-> {"get_economic_data"},
              sent |-> sent]
        ELSE IF resp.obs = <<>>
        THEN [ret |-> NoData_dict,
              log |-> <<start, <<"WARNING", "No data returned for series">> >>,
              ui |-> <<>>,
              fault |-> {},
              sent |-> sent]
        ELSE [ret |-> [present |-> TRUE, data |-> Shape(resp.obs),
                       title |-> title, units |-> units],
              log |-> <<start, <<"INFO", "Successfully retrieved data points">> >>,
              ui |-> <<>>,
              fault |-> {},
              sent |-> sent]

\* variant: the chart branch is taken whatever was returned
HasDataUnchecked(dd) == TRUE

\* main, line 229: `data_dict and not data_dict['data'].empty`
HasData(dd) == dd.present /\ dd.data # <<>>

\* main, lines 216-229: the fetch, the log line about it, the branch on it
FetchData ==
    /\ pc = "fetch"
    /\ \E resp \in ProviderResponses :
         LET det == Indicators[sel.indicator]
             r == GetEconomicData(fred, det.series_id, sel.indicator, det.units,
                                  sel.quarters, resp)
             pulled == IF r.ret.present
                       THEN <<"INFO", "Successfully pulled data points">>
                       ELSE <<"WARNING", "No data returned for indicator">>
         IN  /\ data_dict' = r.ret
             /\ runLog' = runLog \o EmitAll(handlers, r.log \o <<pulled>>)
             /\ ui' = ui \o r.ui
             /\ curFault' = curFault \cup r.fault
             /\ fetched' = fetched \o r.sent
             /\ answer' = resp
             /\ pc' = IF HasData(r.ret) THEN "chart" ELSE "nodata"
    /\ UNCHANGED <<handlers, rootHandlers, rerun, faulted, fred_api_key, fred, sel, fig,
                   metrics, pct_change, escaped, outcome>>

\* the sidebar footer, lines 296-299
Footer == <<El("sidebar", "Data source: Federal Reserve Economic Data (FRED)", "")>>

\* main, lines 293-299: the else branch and the footer
NoData ==
    /\ pc = "nodata"
    /\ ui' = ui \o <<El("error", "No data available", sel.indicator)>> \o Footer
    /\ outcome' = "nodata"
    /\ pc' = "idle"
    /\ UNCHANGED <<handlers, rootHandlers, rerun, faulted, fred_api_key, fred, sel,
                   data_dict, fig, metrics, runLog, fetched, answer, pct_change, curFault,
                   escaped>>

----------------------------------------------------------------------------
(* create_chart *)

\* the figure built for a chart type; pxRaises: the plotting call raises
CreateChart(dd, chart_type, pxRaises) ==
    IF pxRaises
    THEN [fig |-> NoFig,
          log |-> << <<"INFO", "Creating chart">>, <<"ERROR", "Error creating chart">> >>,
          ui |-> <<El("error", "Error creating chart", "")>>,
          fault |-> {"create_chart"}]
    ELSE [fig |-> [present |-> TRUE,
                   kind |-> CASE chart_type = "Line" -> "line"
                              [] chart_type = "Bar" -> "bar"
                              [] chart_type = "Area" -> "area"
                              [] OTHER -> "line",
                   title |-> dd.title,
                   ncat |-> Len(dd.data),
                   ylabel |-> dd.units,
                   markers |-> (chart_type = "Line")],
          log |-> << <<"INFO", "Creating chart">> >>,
          ui |-> <<>>,
          fault |-> {}]

\* main, lines 230-244: the chart column
RenderChart ==
    /\ pc = "chart"
    /\ \E pxRaises \in BOOLEAN :
         LET r == CreateChart(data_dict, sel.chart_type, pxRaises)
         IN  /\ fig' = r.fig
             /\ runLog' = runLog \o EmitAll(handlers, r.log)
             /\ ui' = ui \o r.ui \o
                      (IF r.fig.present
                       THEN <<El("plotly_chart", r.fig.kind, r.fig.title),
                              El("dataframe", "Show Raw Data", "")>>
                       ELSE <<>>)
             /\ curFault' = curFault \cup r.fault
    /\ pc' = "stats"
    /\ UNCHANGED <<handlers, rootHandlers, rerun, faulted, fred_api_key, fred, sel,
                   data_dict, metrics, fetched, answer, pct_change, escaped, outcome>>

----------------------------------------------------------------------------
(* calculate_change *)

\* variant: oldest and newest exchanged
CalculateChangeSwapped(dd) ==
    LET df == dd.data
    IN  IF Len(df) >= 2
        THEN LET oldest == df[Len(df)].Value
                 newest == df[1].Value
                 q == FDiv(FSub(newest, oldest), oldest)
             IN  IF q.k = "raise"
                 THEN [res |-> NoneVal, log |-> << <<"ERROR", "Error calculating change">> >>,
                       fault |-> {"calculate_change"}]
                 ELSE [res |-> FMul(q, 100), log |-> <<>>, fault |-> {}]
        ELSE [res |-> NoneVal, log |-> <<>>, fault |-> {}]

\* the percent change from the first to the last row, None under two rows;
\* an exception in the computation is logged and answered with None
CalculateChange(dd) ==
    LET df == dd.data
    IN  IF Len(df) >= 2
        THEN LET oldest == df[1].Value
                 newest == df[Len(df)].Value
                 q == FDiv(FSub(newest, oldest), oldest)
             IN  IF q.k = "raise"
                 THEN [res |-> NoneVal, log |-> << <<"ERROR", "Error calculating change">> >>,
                       fault |-> {"calculate_change"}]
                 ELSE [res |-> FMul(q, 100), log |-> <<>>, fault |-> {}]
        ELSE [res |-> NoneVal, log |-> <<>>, fault |-> {}]

----------------------------------------------------------------------------
(* the statistics column of main *)

\* f"{x:,.2f}": the value in hundredths, rounded half to even; nan and the
\* infinities print as such, None is given to st.metric as None
Fmt2(x) ==
    IF x.k = "num"
    THEN LET q == (100 * x.n) \div x.d
             r == (100 * x.n) % x.d
             c == IF 2 * r > x.d \/ (2 * r = x.d /\ q % 2 = 1) THEN q + 1 ELSE q
         IN  [k |-> "num", cents |-> c]
    ELSE [k |-> x.k, cents |-> 0]

\* the rows whose value is not NaN (pandas reductions skip NaN)
Valid(df) == {i \in 1..Len(df) : df[i].Value.k = "num"}

\* df['Value'].min() / .max(): NaN when every value is NaN
SeriesMin(df) ==
    IF Valid(df) = {} THEN NaN
    ELSE LET i == CHOOSE i \in Valid(df) :
                    \A j \in Valid(df) : ~FLess(df[j].Value, df[i].Value)
         IN  df[i].Value

SeriesMax(df) ==
    IF Valid(df) = {} THEN NaN
    ELSE LET i == CHOOSE i \in Valid(df) :
                    \A j \in Valid(df) : ~FLess(df[i].Value, df[j].Value)
         IN  df[i].Value

\* df['Value'].idxmin() / .idxmax(): the first row holding the extreme; 0
\* stands for the exception raised when every value is NaN
IdxMin(df) ==
    IF Valid(df) = {} THEN 0
    ELSE CHOOSE i \in Valid(df) :
           /\ df[i].Value = SeriesMin(df)
           /\ \A j \in Valid(df) : df[j].Value = SeriesMin(df) => i <= j

IdxMax(df) ==
    IF Valid(df) = {} THEN 0
    ELSE CHOOSE i \in Valid(df) :
           /\ df[i].Value = SeriesMax(df)
           /\ \A j \in Valid(df) : df[j].Value = SeriesMax(df) => i <= j

RECURSIVE SumValid(_, _)
SumValid(df, i) ==
    IF i = 0 THEN Num(0)
    ELSE IF df[i].Value.k = "num"
         THEN LET a == SumValid(df, i - 1)
                  b == df[i].Value
              IN  Frac(a.n * b.d + b.n * a.d, a.d * b.d)
         ELSE SumValid(df, i - 1)

\* df['Value'].mean()
SeriesMean(df) ==
    IF Valid(df) = {} THEN NaN
    ELSE LET t == SumValid(df, Len(df))
         IN  Frac(t.n, t.d * Cardinality(Valid(df)))

\* the exception df.loc[df['Value'].idxmin(), 'Quarter'] ends in when every
\* value is NaN: KeyError (idxmin answers NaN) or ValueError (idxmin raises),
\* by pandas version
IdxFaults == {"KeyError", "ValueError"}

\* variant: a handler for KeyError alone
MainCatchesKeyErrorOnly(exc) == exc = "KeyError"

\* `except Exception` of main, line 301
MainCatches(exc) == exc \in {"KeyError", "ValueError", "ZeroDivisionError", "Exception"}

\* main, lines 246-303: statistics, description, footer, and the handler
Statistics ==
    /\ pc = "stats"
    /\ \E idxFault \in IdxFaults :
         LET df == data_dict.data
             latest_value == df[Len(df)].Value
             latest_quarter == df[Len(df)].Quarter
             c == CalculateChange(data_dict)
             shown1 == [NoMetrics EXCEPT !.latest = Fmt2(latest_value),
                                         !.latest_quarter = latest_quarter,
                                         !.delta = Fmt2(c.res)]
             ui1 == <<El("subheader", "Key Statistics", ""),
                      El("metric", "Latest Value", "")>>
         IN  /\ pct_change' = c.res
             /\ IF IdxMin(df) = 0
                THEN /\ metrics' = shown1
                     /\ curFault' = curFault \cup c.fault \cup {"statistics"}
                     /\ IF MainCatches(idxFault)
                        THEN /\ runLog' = runLog \o
                                  EmitAll(handlers, c.log \o <<<<"ERROR", "Application error">>>>)
                             /\ ui' = ui \o ui1 \o <<El("error", "An error occurred", idxFault)>>
                             /\ escaped' = "none"
                             /\ outcome' = "error"
                        ELSE /\ runLog' = runLog \o EmitAll(handlers, c.log)
                             /\ ui' = ui \o ui1
                             /\ escaped' = idxFault
                             /\ outcome' = "crashed"
                ELSE /\ metrics' = [shown1 EXCEPT
                                      !.min = Fmt2(SeriesMin(df)),
                                      !.min_quarter = df[IdxMin(df)].Quarter,
                                      !.max = Fmt2(SeriesMax(df)),
                                      !.max_quarter = df[IdxMax(df)].Quarter,
                                      !.mean = Fmt2(SeriesMean(df))]
                     /\ runLog' = runLog \o EmitAll(handlers, c.log)
                     /\ ui' = ui \o ui1 \o
                              <<El("metric", "Minimum", ""), El("metric", "Maximum", ""),
                                El("metric", "Average", ""),
                                El("subheader", "About this Indicator", sel.indicator)>>
                              \o Footer
                     /\ curFault' = curFault \cup c.fault
                     /\ escaped' = "none"
                     /\ outcome' = "shown"
    /\ pc' = "idle"
    /\ UNCHANGED <<handlers, rootHandlers, rerun, faulted, fred_api_key, fred, sel,
                   data_dict, fig, fetched, answer>>

----------------------------------------------------------------------------
Init ==
    /\ handlers = <<>>
    /\ rootHandlers \in BOOLEAN
    /\ rerun = FALSE
    /\ faulted = FALSE
    /\ pc = "idle"
    /\ fred_api_key = "unset"
    /\ fred = "None"
    /\ sel = NoSel
    /\ data_dict = NoData_dict
    /\ fig = NoFig
    /\ ui = <<>>
    /\ metrics = NoMetrics
    /\ runLog = <<>>
    /\ fetched = <<>>
    /\ answer = NoAnswer
    /\ pct_change = NoneVal
    /\ curFault = {}
    /\ escaped = "none"
    /\ outcome = "none"

Next ==
    \/ SetupLogging
    \/ LoadEnv
    \/ MainStart
    \/ SelectWidgets
    \/ FetchData
    \/ NoData
    \/ RenderChart
    \/ Statistics

Spec == Init /\ [][Next]_vars
----------------------------------------------------------------------------
(* Helpers of the properties *)

Shown(e) == \E i \in 1..Len(ui) : ui[i] = e
ShownKind(kind) == \E i \in 1..Len(ui) : ui[i].kind = kind
Logged(lvl, msg) == \E i \in 1..Len(runLog) : runLog[i].lvl = lvl /\ runLog[i].msg = msg
\* an execution has finished with the statistics code run on the table
StatsRan == pc = "idle" /\ outcome \in {"shown", "error"}
EmptyAnswer == answer.k = "series" /\ answer.obs = <<>>
FirstValue == data_dict.data[1].Value
LastValue == data_dict.data[Len(data_dict.data)].Value

----------------------------------------------------------------------------
(* C1: whenever the provider answered an empty series, the execution is on *)
(* the "no data" path: no figure is built, nothing is plotted, create_chart *)
(* is never entered, and the finished execution shows "No data available".  *)
C1_EmptySeriesNoChart ==
    EmptyAnswer =>
        /\ pc \in {"nodata", "idle"}
        /\ ~fig.present
        /\ ~ShownKind("plotly_chart")
        /\ ~Logged("INFO", "Creating chart")
        /\ pc = "idle" =>
             /\ outcome = "nodata"
             /\ Shown(El("error", "No data available", sel.indicator))

C1_Witness == EmptyAnswer /\ pc = "idle" /\ outcome = "nodata"

(* C2: with FRED_API_KEY missing (None or empty), once initialize_fred has  *)
(* run the execution is stopped with the configuration error shown, there  *)
(* is no client, and no request was sent to the provider.                  *)
C2_MissingKeyNoFetch ==
    (fred_api_key \in {"None", ""} /\ pc # "main") =>
        /\ pc = "idle"
        /\ outcome = "stopped"
        /\ fred = "None"
        /\ fetched = <<>>
        /\ answer = NoAnswer
        /\ Shown(El("error", "FRED API key not found. Please check your .env file.", ""))
        /\ Logged("ERROR", "FRED API key not found in environment variables")

C2_Witness == fred_api_key = "None" /\ pc = "idle" /\ outcome = "stopped"

(* C3: no exception leaves main; every fault raised in an execution has    *)
(* become a message or a None result by the end of that execution; and the *)
(* next execution can always start.                                        *)
C3_FaultsRecovered ==
    /\ escaped = "none"
    /\ outcome # "crashed"
    /\ pc = "idle" => ENABLED SetupLogging
    /\ (pc = "idle" /\ outcome # "none") =>
         /\ "initialize_fred" \in curFault =>
              fred = "None" /\ Shown(El("error", "Error initializing FRED API", ""))
         /\ "get_economic_data" \in curFault =>
              ~data_dict.present /\ Shown(El("error", "Error fetching data", sel.indicator))
         /\ "create_chart" \in curFault =>
              ~fig.present /\ Shown(El("error", "Error creating chart", ""))
         /\ "calculate_change" \in curFault =>
              pct_change = NoneVal /\ Logged("ERROR", "Error calculating change")
         /\ "statistics" \in curFault =>
              ShownKind("error") /\ Logged("ERROR", "Application error")

\* an execution that recovered from a fault in the statistics code
C3_Witness ==
    /\ faulted
    /\ pc = "idle"
    /\ outcome = "error"
    /\ curFault = {"create_chart", "statistics"}

(* C4: for a table of at least 2 rows calculate_change returns             *)
(* (last - first) / first * 100 of the first and last rows: the exact      *)
(* quotient when first is not zero, and the float64 value of the           *)
(* expression (NaN, +inf, -inf) when a value is NaN or first is zero.      *)
C4_PercentChange ==
    (StatsRan /\ Len(data_dict.data) >= 2) =>
        LET f == FirstValue
            l == LastValue
            r == pct_change
        IN  IF f.k = "nan" \/ l.k = "nan" THEN r.k = "nan"
            ELSE IF f.n # 0
                 THEN /\ r.k = "num"
                      /\ r.n * (l.d * f.n) = r.d * (l.n * f.d - f.n * l.d) * 100
            ELSE IF l.n > 0 THEN r.k = "inf"
            ELSE IF l.n < 0 THEN r.k = "ninf"
            ELSE r.k = "nan"

\* three rows, first 3, last -1 and another value between: -400/3 percent
C4_Witness ==
    /\ StatsRan
    /\ Len(data_dict.data) = 3
    /\ FirstValue = Num(3)
    /\ data_dict.data[2].Value = Num(0)
    /\ LastValue = Num(0 - 1)
    /\ pct_change = [k |-> "num", n |-> 0 - 400, d |-> 3]

(* C5: for a table of exactly 1 row calculate_change returns None, no      *)
(* delta is shown, and the minimum, maximum and latest values shown all    *)
(* equal that row's value.                                                 *)
C5_SingleRow ==
    (StatsRan /\ Len(data_dict.data) = 1) =>
        /\ pct_change = NoneVal
        /\ metrics.delta.k = "none"
        /\ metrics.latest = Fmt2(FirstValue)
        /\ metrics.min = metrics.latest
        /\ metrics.max = metrics.latest

(* C6: no row of the table returned by get_economic_data has an absent     *)
(* (NaN) value, and a series whose observations are all absent gives the   *)
(* "no data" result (None) instead of a table.                             *)
C6_AbsentDropped ==
    /\ data_dict.present =>
         \A i \in 1..Len(data_dict.data) : data_dict.data[i].Value.k # "nan"
    /\ (answer.k = "series" /\ \A i \in 1..Len(answer.obs) : answer.obs[i].Value.k = "nan")
         => ~data_dict.present

(* C7: the rows of the table returned by get_economic_data are in          *)
(* non-decreasing order of their date, so the first row is the oldest      *)
(* observation answered and the last row the latest.                       *)
C7_RowsChronological ==
    data_dict.present =>
        LET df == data_dict.data
        IN  /\ \A i, j \in 1..Len(df) : i < j => df[i].Date <= df[j].Date
            /\ \A i \in 1..Len(df) : df[1].Date <= answer.obs[i].Date
            /\ \A i \in 1..Len(df) : answer.obs[i].Date <= df[Len(df)].Date

C7_Witness ==
    /\ data_dict.present
    /\ Len(data_dict.data) = 3
    /\ data_dict.data[1].Quarter = <<0, 4>>
    /\ data_dict.data[3].Quarter = <<1, 1>>

(* C8 as stated: with at least 2 rows and a first value of exactly 0 the   *)
(* division in calculate_change signals a divide-by-zero fault.            *)
C8_DivisionFaults ==
    (StatsRan /\ Len(data_dict.data) >= 2 /\ FirstValue = Num(0)) =>
        "calculate_change" \in curFault

(* C8 amended: with at least 2 rows and a first value of exactly 0 the     *)
(* unguarded division raises nothing: calculate_change logs no error and   *)
(* returns +inf, -inf or NaN by the sign of the last value, and that value *)
(* is shown as the metric's delta.                                         *)
C8_DivisionNonFinite ==
    (StatsRan /\ Len(data_dict.data) >= 2 /\ FirstValue = Num(0)) =>
        /\ "calculate_change" \notin curFault
        /\ ~Logged("ERROR", "Error calculating change")
        /\ pct_change.k = (IF LastValue.k = "nan" THEN "nan"
                           ELSE IF LastValue.n > 0 THEN "inf"
                           ELSE IF LastValue.n < 0 THEN "ninf"
                           ELSE "nan")
        /\ metrics.delta.k = pct_change.k

C8_Witness ==
    /\ StatsRan
    /\ Len(data_dict.data) >= 2
    /\ FirstValue = Num(0)
    /\ LastValue = Num(3)
    /\ pct_change = PosInf
    /\ outcome = "shown"

(* C9: a provider failure and an empty series both make get_economic_data  *)
(* return None; in both main logs the "No data returned" warning and ends  *)
(* by showing "No data available"; after a provider failure that message  *)
(* comes after the "Error fetching" message, which an empty series does    *)
(* not produce.                                                             *)
C9_FailureLikeEmpty ==
    ((answer.k = "raise" \/ EmptyAnswer) /\ pc = "idle") =>
        /\ data_dict = NoData_dict
        /\ outcome = "nodata"
        /\ Logged("WARNING", "No data returned for indicator")
        /\ Shown(El("error", "No data available", sel.indicator))
        /\ answer.k = "raise" =>
             \E i, j \in 1..Len(ui) :
                /\ i < j
                /\ ui[i] = El("error", "Error fetching data", sel.indicator)
                /\ ui[j] = El("error", "No data available", sel.indicator)
        /\ EmptyAnswer => ~Shown(El("error", "Error fetching data", sel.indicator))

C9_Witness ==
    /\ answer.k = "raise"
    /\ pc = "idle"
    /\ outcome = "nodata"
    /\ Shown(El("error", "Error fetching data", sel.indicator))

(* C10: after every call of setup_logging the logger has exactly two       *)
(* handlers, a console handler at INFO and a file handler at DEBUG, and    *)
(* every record logged reaches each of the two sinks at most once.         *)
C10_TwoHandlers ==
    outcome # "none" =>
        /\ Len(handlers) = 2
        /\ Cardinality({i \in 1..Len(handlers) : handlers[i] = ConsoleHandler}) = 1
        /\ Cardinality({i \in 1..Len(handlers) : handlers[i] = FileHandler}) = 1
        /\ \A i \in 1..Len(runLog) : runLog[i].console <= 1 /\ runLog[i].file <= 1

\* just after a second or later call
C10_Witness == rerun /\ pc = "env" /\ Len(handlers) = 2 /\ runLog # <<>>
====
